---- MODULE Spec2Model ----
(***************************************************************************)
(* Dense and local Hamiltonians of qibo (src/qibo/base/hamiltonians.py):   *)
(* the Hamiltonian objects with their eigen and exponential caches, the    *)
(* arithmetic that builds new objects, and the LocalHamiltonian with its   *)
(* dense reconstruction and its cached Trotter circuit.                    *)
(*                                                                         *)
(* Objects live in heaps (sequences); an object's identity is its index.   *)
(* Matrices are concrete integer matrices [dtype, rows]; scalars are       *)
(* integers.  An optional value (Python None or a value) is a sequence of  *)
(* length 0 or 1.                                                          *)
(***************************************************************************)
EXTENDS Integers, Sequences, FiniteSets, TLC

VARIABLES hams,      \* heap of Hamiltonian objects
          ncalls,    \* per Hamiltonian: how often each eigensolver of the backend ran for it
          locals,    \* heap of LocalHamiltonian objects
          circuits,  \* heap of Circuit objects (each a queue of gate ids)
          gates,     \* heap of gates.Unitary objects
          ret,       \* the last call: operation, arguments, error, returned value, and
                     \* the Hamiltonians whose exponential the backend computed in it
          sched      \* the TaskScheduler objects (each with its executor), the futures
                     \* they returned and the order in which tasks were started

vars == <<hams, ncalls, locals, circuits, gates, ret, sched>>

(***************************************************************************)
(* Bounds of the model.                                                    *)
(***************************************************************************)
MaxDenseHams == 2     \* Hamiltonian objects on the heap under SpecDense
MaxResults == 1       \* objects built by arithmetic under SpecArith
MaxRing == 4          \* qubits of a ring built by from_single_term
MaxBuilt == 1         \* local Hamiltonians built by a constructor under SpecLocal
MaxLocals == 2        \* local Hamiltonians on the heap (built or scaled)
MaxNewHams == 2       \* Hamiltonians made by scaling or dense reconstruction
MaxSchedulers == 2    \* TaskScheduler objects
MaxTasks == 3         \* tasks submitted to the executors

None == <<>>
Some(x) == <<x>>
Val(opt) == opt[1]

(***************************************************************************)
(* Matrices and the numeric backend K.                                     *)
(***************************************************************************)
Mat(dtype, rows) == [dtype |-> dtype, rows |-> rows]

Shape(m) == <<Len(m.rows), Len(m.rows[1])>>

\* numpy type promotion between the two complex element types
Promote(d1, d2) == IF d1 = "complex128" \/ d2 = "complex128" THEN "complex128" ELSE "complex64"

Eye(n, dtype) == Mat(dtype, [i \in 1..n |-> [j \in 1..n |-> IF i = j THEN 1 ELSE 0]])

MatAdd(A, B) ==
    Mat(Promote(A.dtype, B.dtype),
        [i \in 1..Len(A.rows) |-> [j \in 1..Len(A.rows[i]) |-> A.rows[i][j] + B.rows[i][j]]])

MatSub(A, B) ==
    Mat(Promote(A.dtype, B.dtype),
        [i \in 1..Len(A.rows) |-> [j \in 1..Len(A.rows[i]) |-> A.rows[i][j] - B.rows[i][j]]])

\* matrix * o and o * matrix for a Python number o (the element type is kept)
MatScale(o, A) ==
    Mat(A.dtype, [i \in 1..Len(A.rows) |-> [j \in 1..Len(A.rows[i]) |-> o * A.rows[i][j]]])

RECURSIVE SumTo(_, _)
SumTo(f, n) == IF n = 0 THEN 0 ELSE f[n] + SumTo(f, n - 1)

\* K.matmul of two square matrices of one size
MatMul(A, B) ==
    LET n == Len(A.rows)
    IN  Mat(Promote(A.dtype, B.dtype),
            [i \in 1..n |-> [j \in 1..n |->
                SumTo([k \in 1..n |-> A.rows[i][k] * B.rows[k][j]], n)]])

IsDiagonal(m) ==
    \A i \in 1..Len(m.rows) : \A j \in 1..Len(m.rows[i]) : i # j => m.rows[i][j] = 0

Diag(m) == [i \in 1..Len(m.rows) |-> m.rows[i][i]]

\* the positions of d in ascending order of value, ties by position
RECURSIVE SortPerm(_, _)
SortPerm(d, left) ==
    IF left = {} THEN <<>>
    ELSE LET p == CHOOSE i \in left :
                     \A j \in left : d[i] < d[j] \/ (d[i] = d[j] /\ i <= j)
         IN  <<p>> \o SortPerm(d, left \ {p})

\* K.linalg.eigvalsh: the eigenvalues in ascending order (exact on diagonal matrices)
Eigvalsh(m) ==
    LET d == Diag(m)
        p == SortPerm(d, 1..Len(d))
    IN  [k \in 1..Len(d) |-> d[p[k]]]

\* K.linalg.eigh: eigenvalues ascending and the matrix whose k-th column is the
\* k-th eigenvector (exact on diagonal matrices)
Eigh(m) ==
    LET d == Diag(m)
        p == SortPerm(d, 1..Len(d))
    IN  [vals |-> [k \in 1..Len(d) |-> d[p[k]]],
         vecs |-> Mat(m.dtype,
                      [i \in 1..Len(d) |-> [k \in 1..Len(d) |-> IF i = p[k] THEN 1 ELSE 0]])]

\* o * eigenvalues for a vector of eigenvalues
VecScale(o, v) == [k \in 1..Len(v) |-> o * v[k]]

\* v[::-1]
Reverse(v) == [k \in 1..Len(v) |-> v[Len(v) + 1 - k]]

\* _calculate_exp(a): the matrix exponential exp(-1j * a * matrix) of the backend,
\* kept symbolic
Expm(a, m) == <<"expm", a, m>>

(***************************************************************************)
(* Hamiltonian                                                             *)
(***************************************************************************)
\* the nqubits argument of the constructor: an int or something else
IntArg(v) == [isint |-> TRUE, v |-> v]
FloatArg(v) == [isint |-> FALSE, v |-> v]

\* Hamiltonian.__init__, the validation: the error raised, "" when none
HamInitError(nq, m) ==
    IF ~nq.isint THEN "RuntimeError"
    ELSE IF nq.v < 1 THEN "ValueError"
    ELSE IF Shape(m) # <<2 ^ nq.v, 2 ^ nq.v>> THEN "ValueError"
    ELSE ""

\* Hamiltonian.__init__, the object it leaves
HamInit(nqubits, m) ==
    [nqubits |-> nqubits, matrix |-> m,
     eigenvalues |-> None, eigenvectors |-> None,
     exp |-> [a |-> None, result |-> None]]

NoCalls == [eigvalsh |-> 0, eigh |-> 0]

\* no TaskScheduler has been made
NoSchedulers == [workers |-> <<>>, futures |-> <<>>, started |-> <<>>]

HamIds == 1..Len(hams)

Ret(op, args, err, val, expm) ==
    [op |-> op, args |-> args, err |-> err, val |-> val, expm |-> expm, branch |-> ""]

\* self._eye(n)
HamEye(h, n) == Eye(n, h.matrix.dtype)

\* an operand of an arithmetic operator: another Hamiltonian (by id), a Python
\* number, an array of some rank, or an object of an unsupported type
HamOp(id) == [kind |-> "ham", v |-> id]
NumOp(x) == [kind |-> "num", v |-> x]
ArrayOp(rank) == [kind |-> "array", v |-> rank]
OtherOp == [kind |-> "other", v |-> 0]

\* outcomes of a call that may allocate: the heap after it, the error raised
\* ("" when none) and the returned value
Raise(heap, err) == [heap |-> heap, err |-> err, val |-> None]
Alloc(heap, obj) == [heap |-> Append(heap, obj), err |-> "", val |-> <<"ham", Len(heap) + 1>>]

\* self.__class__(nqubits, matrix): Hamiltonian.__init__ on a new object
Construct(heap, nq, m) ==
    IF HamInitError(nq, m) # "" THEN Raise(heap, HamInitError(nq, m))
    ELSE Alloc(heap, HamInit(nq.v, m))

\* eigenvalues without the cache test
EigenvaluesCallAlways(h, n) ==
    [obj |-> [h EXCEPT !.eigenvalues = Some(Eigvalsh(h.matrix))],
     n |-> [n EXCEPT !.eigvalsh = @ + 1]]

\* Hamiltonian.eigenvalues: the object and its backend-call counts after the call
EigenvaluesCall(h, n) ==
    IF h.eigenvalues = None
    THEN [obj |-> [h EXCEPT !.eigenvalues = Some(Eigvalsh(h.matrix))],
          n |-> [n EXCEPT !.eigvalsh = @ + 1]]
    ELSE [obj |-> h, n |-> n]

\* Hamiltonian.eigenvectors
EigenvectorsCall(h, n) ==
    IF h.eigenvectors = None
    THEN [obj |-> [h EXCEPT !.eigenvalues = Some(Eigh(h.matrix).vals),
                            !.eigenvectors = Some(Eigh(h.matrix).vecs)],
          n |-> [n EXCEPT !.eigh = @ + 1]]
    ELSE [obj |-> h, n |-> n]

\* exp without the cache test
ExpCallAlways(h, a, ok) ==
    IF ok
    THEN [obj |-> [h EXCEPT !.exp = [a |-> Some(a), result |-> Some(Expm(a, h.matrix))]],
          computed |-> TRUE, raised |-> FALSE]
    ELSE [obj |-> [h EXCEPT !.exp.a = Some(a)], computed |-> TRUE, raised |-> TRUE]

\* Hamiltonian.exp: the object after the call, whether _calculate_exp ran and
\* whether it raised.  ok is the outcome of _calculate_exp: it returns the
\* exponential (a subclass with a backend) or raises (the method of this class,
\* or a backend that fails); a is stored before _calculate_exp is called.
ExpCall(h, a, ok) ==
    IF h.exp.a # Some(a)
    THEN IF ok
         THEN [obj |-> [h EXCEPT !.exp = [a |-> Some(a), result |-> Some(Expm(a, h.matrix))]],
               computed |-> TRUE, raised |-> FALSE]
         ELSE [obj |-> [h EXCEPT !.exp.a = Some(a)], computed |-> TRUE, raised |-> TRUE]
    ELSE [obj |-> h, computed |-> FALSE, raised |-> FALSE]

\* __add__ that adds into self.matrix and returns self
AddCallInPlace(heap, self, o) ==
    LET h == heap[self]
    IN  IF o.kind = "ham"
        THEN IF h.nqubits # heap[o.v].nqubits THEN Raise(heap, "RuntimeError")
             ELSE [heap |-> [heap EXCEPT ![self].matrix = MatAdd(h.matrix, heap[o.v].matrix)],
                   err |-> "", val |-> <<"ham", self>>]
        ELSE IF o.kind = "num"
        THEN [heap |-> [heap EXCEPT ![self].matrix =
                           MatAdd(h.matrix, MatScale(o.v, HamEye(h, Len(h.matrix.rows))))],
              err |-> "", val |-> <<"ham", self>>]
        ELSE Raise(heap, "NotImplementedError")

\* Hamiltonian.__add__ (and __radd__, which forwards to it)
AddCall(heap, self, o) ==
    LET h == heap[self]
    IN  IF o.kind = "ham"
        THEN IF h.nqubits # heap[o.v].nqubits THEN Raise(heap, "RuntimeError")
             ELSE Construct(heap, IntArg(h.nqubits), MatAdd(h.matrix, heap[o.v].matrix))
        ELSE IF o.kind = "num"
        THEN Construct(heap, IntArg(h.nqubits),
                       MatAdd(h.matrix, MatScale(o.v, HamEye(h, Len(h.matrix.rows)))))
        ELSE Raise(heap, "NotImplementedError")

\* Hamiltonian.__sub__
SubCall(heap, self, o) ==
    LET h == heap[self]
    IN  IF o.kind = "ham"
        THEN IF h.nqubits # heap[o.v].nqubits THEN Raise(heap, "RuntimeError")
             ELSE Construct(heap, IntArg(h.nqubits), MatSub(h.matrix, heap[o.v].matrix))
        ELSE IF o.kind = "num"
        THEN Construct(heap, IntArg(h.nqubits),
                       MatSub(h.matrix, MatScale(o.v, HamEye(h, Len(h.matrix.rows)))))
        ELSE Raise(heap, "NotImplementedError")

\* Hamiltonian.__rsub__: o - self
RsubCall(heap, self, o) ==
    LET h == heap[self]
    IN  IF o.kind = "ham"
        THEN IF h.nqubits # heap[o.v].nqubits THEN Raise(heap, "RuntimeError")
             ELSE Construct(heap, IntArg(h.nqubits), MatSub(heap[o.v].matrix, h.matrix))
        ELSE IF o.kind = "num"
        THEN Construct(heap, IntArg(h.nqubits),
                       MatSub(MatScale(o.v, HamEye(h, Len(h.matrix.rows))), h.matrix))
        ELSE Raise(heap, "NotImplementedError")

\* __mul__ that hands the eigenvalues on in the operand's order whatever the sign
MulObjectKeepOrder(h, o) ==
    LET r == HamInit(h.nqubits, MatScale(o, h.matrix))
        vals == IF h.eigenvalues = None THEN None
                ELSE Some(VecScale(o, Val(h.eigenvalues)))
        vecs == IF h.eigenvectors = None THEN None
                ELSE IF o > 0 THEN h.eigenvectors
                ELSE IF o = 0 THEN Some(HamEye(h, Len(Val(h.eigenvectors).rows)))
                ELSE None
    IN  [r EXCEPT !.eigenvalues = vals, !.eigenvectors = vecs]

\* Hamiltonian.__mul__ (and __rmul__), the new object for a numeric o
MulObject(h, o) ==
    LET r == HamInit(h.nqubits, MatScale(o, h.matrix))
        vals == IF h.eigenvalues = None THEN None
                ELSE IF o >= 0 THEN Some(VecScale(o, Val(h.eigenvalues)))
                ELSE Some(VecScale(o, Reverse(Val(h.eigenvalues))))
        vecs == IF h.eigenvectors = None THEN None
                ELSE IF o > 0 THEN h.eigenvectors
                ELSE IF o = 0 THEN Some(HamEye(h, Len(Val(h.eigenvectors).rows)))
                ELSE None
    IN  [r EXCEPT !.eigenvalues = vals, !.eigenvectors = vecs]

\* Hamiltonian.__mul__
MulCall(heap, self, o) ==
    LET h == heap[self]
    IN  IF o.kind = "num"
        THEN IF HamInitError(IntArg(h.nqubits), MatScale(o.v, h.matrix)) # ""
             THEN Raise(heap, HamInitError(IntArg(h.nqubits), MatScale(o.v, h.matrix)))
             ELSE Alloc(heap, MulObject(h, o.v))
        ELSE Raise(heap, "NotImplementedError")

\* Hamiltonian.__matmul__
MatmulCall(heap, self, o) ==
    LET h == heap[self]
    IN  IF o.kind = "ham"
        THEN IF Shape(h.matrix) # Shape(heap[o.v].matrix)
             THEN Raise(heap, "ValueError")   \* K.matmul refuses the shapes
             ELSE Construct(heap, IntArg(h.nqubits), MatMul(h.matrix, heap[o.v].matrix))
        ELSE IF o.kind = "array"
        THEN IF o.v = 1 THEN [heap |-> heap, err |-> "", val |-> <<"vector">>]
             ELSE IF o.v = 2 THEN [heap |-> heap, err |-> "", val |-> <<"matrix">>]
             ELSE Raise(heap, "ValueError")
        ELSE Raise(heap, "NotImplementedError")

(***************************************************************************)
(* Inputs of the dense operations.                                         *)
(***************************************************************************)
PauliZ == Mat("complex128", << <<1, 0>>, <<0, -1>> >>)
PauliZZ == Mat("complex128", << <<1, 0, 0, 0>>, <<0, -1, 0, 0>>, <<0, 0, -1, 0>>, <<0, 0, 0, 1>> >>)

\* (nqubits, matrix) arguments of the constructor: two valid pairs, a float
\* nqubits, a non positive nqubits, a matrix of the wrong shape
ConstructorArgs == {<<IntArg(1), PauliZ>>, <<IntArg(2), PauliZZ>>, <<FloatArg(1), PauliZ>>,
                    <<IntArg(0), PauliZ>>, <<IntArg(1), PauliZZ>>}
Scalars == {-1, 0, 2}
ExpArgs == {1, 2}
AddOperands == {HamOp(i) : i \in HamIds} \cup {NumOp(2), OtherOp}
MulOperands == {NumOp(x) : x \in Scalars} \cup {OtherOp}
MatmulOperands == {HamOp(i) : i \in HamIds} \cup {ArrayOp(r) : r \in 1..3} \cup {OtherOp}

\* the call counters after a call that left the heap `heap`
Counted(heap) == [i \in 1..Len(heap) |-> IF i <= Len(ncalls) THEN ncalls[i] ELSE NoCalls]

\* a call on Hamiltonians alone leaves the local Hamiltonians and circuits alone
DenseFrame == UNCHANGED <<locals, circuits, gates, sched>>

Returns(op, args, out) ==
    /\ hams' = out.heap
    /\ ncalls' = Counted(out.heap)
    /\ ret' = Ret(op, args, out.err, out.val, <<>>)

(***************************************************************************)
(* Operations on Hamiltonians.                                             *)
(***************************************************************************)
NewHamiltonian(nq, m) ==
    /\ Returns("Hamiltonian", <<nq, m>>, Construct(hams, nq, m))
    /\ DenseFrame

Eigenvalues(self) ==
    LET c == EigenvaluesCall(hams[self], ncalls[self])
    IN  /\ IsDiagonal(hams[self].matrix)
        /\ hams' = [hams EXCEPT ![self] = c.obj]
        /\ ncalls' = [ncalls EXCEPT ![self] = c.n]
        /\ ret' = Ret("eigenvalues", <<self>>, "", c.obj.eigenvalues, <<>>)
        /\ DenseFrame

Eigenvectors(self) ==
    LET c == EigenvectorsCall(hams[self], ncalls[self])
    IN  /\ IsDiagonal(hams[self].matrix)
        /\ hams' = [hams EXCEPT ![self] = c.obj]
        /\ ncalls' = [ncalls EXCEPT ![self] = c.n]
        /\ ret' = Ret("eigenvectors", <<self>>, "", c.obj.eigenvectors, <<>>)
        /\ DenseFrame

Exp(self, a, ok) ==
    LET c == ExpCall(hams[self], a, ok)
    IN  /\ hams' = [hams EXCEPT ![self] = c.obj]
        /\ ret' = Ret("exp", <<self, a>>, IF c.raised THEN "NotImplementedError" ELSE "",
                      IF c.raised THEN None ELSE c.obj.exp.result,
                      IF c.computed THEN <<self>> ELSE <<>>)
        /\ UNCHANGED ncalls
        /\ DenseFrame

Add(self, o) == Returns("add", <<self, o>>, AddCall(hams, self, o)) /\ DenseFrame

Sub(self, o) == Returns("sub", <<self, o>>, SubCall(hams, self, o)) /\ DenseFrame

Rsub(self, o) == Returns("rsub", <<self, o>>, RsubCall(hams, self, o)) /\ DenseFrame

Mul(self, o) == Returns("mul", <<self, o>>, MulCall(hams, self, o)) /\ DenseFrame

Matmul(self, o) == Returns("matmul", <<self, o>>, MatmulCall(hams, self, o)) /\ DenseFrame

Init ==
    /\ hams = <<>>
    /\ ncalls = <<>>
    /\ locals = <<>>
    /\ circuits = <<>>
    /\ gates = <<>>
    /\ ret = Ret("", <<>>, "", None, <<>>)
    /\ sched = NoSchedulers

\* construction, the caches, and scaling (which hands eigen caches on)
NextDense ==
    /\ \/ \E c \in ConstructorArgs : NewHamiltonian(c[1], c[2])
       \/ \E self \in HamIds : Eigenvalues(self)
       \/ \E self \in HamIds : Eigenvectors(self)
       \/ \E self \in HamIds, a \in ExpArgs, ok \in BOOLEAN : Exp(self, a, ok)
       \/ \E self \in HamIds, o \in MulOperands : Mul(self, o)
    /\ Len(hams') <= MaxDenseHams

SpecDense == Init /\ [][NextDense]_vars

(***************************************************************************)
(* Arithmetic, applied to operands in every state of their caches.         *)
(***************************************************************************)
\* a constructed Hamiltonian after some calls that fill its caches, with the
\* eigensolver runs those calls made
Prepared ==
    LET fresh == {[obj |-> HamInit(1, PauliZ), n |-> NoCalls],
                  [obj |-> HamInit(2, PauliZZ), n |-> NoCalls]}
        vals == {EigenvaluesCall(p.obj, p.n) : p \in fresh}
        vecs == {EigenvectorsCall(p.obj, p.n) : p \in fresh}
        full == {[obj |-> ExpCall(p.obj, 1, TRUE).obj, n |-> p.n] : p \in vecs}
        failed == {[obj |-> ExpCall(p.obj, 2, FALSE).obj, n |-> p.n] : p \in full}
    IN  fresh \cup vals \cup vecs \cup full \cup failed

InitArith ==
    /\ \E p1 \in Prepared, p2 \in Prepared :
          /\ hams = <<p1.obj, p2.obj>>
          /\ ncalls = <<p1.n, p2.n>>
    /\ locals = <<>>
    /\ circuits = <<>>
    /\ gates = <<>>
    /\ ret = Ret("", <<>>, "", None, <<>>)
    /\ sched = NoSchedulers

NextArith ==
    /\ \/ \E self \in HamIds, o \in AddOperands : Add(self, o)
       \/ \E self \in HamIds, o \in AddOperands : Sub(self, o)
       \/ \E self \in HamIds, o \in AddOperands : Rsub(self, o)
       \/ \E self \in HamIds, o \in MulOperands : Mul(self, o)
       \/ \E self \in HamIds, o \in MatmulOperands : Matmul(self, o)
    /\ Len(hams') <= 2 + MaxResults

SpecArith == InitArith /\ [][NextArith]_vars

(***************************************************************************)
(* LocalHamiltonian                                                        *)
(*                                                                         *)
(* A part (a dict) is a sequence of <<targets, term>> pairs with distinct  *)
(* targets, in insertion order; a term is the id of a Hamiltonian, or 0    *)
(* for an object that is no Hamiltonian.  Qubit ids count from 0.          *)
(***************************************************************************)
\* LocalHamiltonian.__iter__: the (targets, term) pairs, part by part
RECURSIVE Placements(_)
Placements(parts) ==
    IF parts = <<>> THEN <<>> ELSE Head(parts) \o Placements(Tail(parts))

TargetSet(targets) == {targets[j] : j \in 1..Len(targets)}

\* the validation loop without the comparison of element types
LocalInitErrorNoDtype(heap, parts) ==
    LET ps == Placements(parts)
        Bad(k) == \/ ps[k][2] \notin 1..Len(heap)
                  \/ Len(ps[k][1]) # heap[ps[k][2]].nqubits
        bad == {k \in 1..Len(ps) : Bad(k)}
    IN  IF bad = {} THEN ""
        ELSE LET k == CHOOSE i \in bad : \A j \in bad : i <= j
             IN  IF ps[k][2] \notin 1..Len(heap) THEN "TypeError" ELSE "ValueError"

\* LocalHamiltonian.__init__, the validation loop: the error of the first
\* placement that fails a check, "" when none does
LocalInitError(heap, parts) ==
    LET ps == Placements(parts)
        Bad(k) == \/ ps[k][2] \notin 1..Len(heap)
                  \/ Len(ps[k][1]) # heap[ps[k][2]].nqubits
                  \/ /\ ps[1][2] \in 1..Len(heap)
                     /\ heap[ps[k][2]].matrix.dtype # heap[ps[1][2]].matrix.dtype
        bad == {k \in 1..Len(ps) : Bad(k)}
    IN  IF bad = {} THEN ""
        ELSE LET k == CHOOSE i \in bad : \A j \in bad : i <= j
             IN  IF ps[k][2] \notin 1..Len(heap) THEN "TypeError"
                 ELSE IF Len(ps[k][1]) # heap[ps[k][2]].nqubits THEN "ValueError"
                 ELSE "TypeError"

\* LocalHamiltonian.__init__, the object it leaves
LocalInit(heap, parts) ==
    LET ps == Placements(parts)
    IN  [parts |-> parts,
         terms_set |-> {ps[k][2] : k \in 1..Len(ps)},
         dtype |-> IF ps = <<>> THEN None ELSE Some(heap[ps[1][2]].matrix.dtype),
         nqubits |-> Cardinality(UNION {TargetSet(ps[k][1]) : k \in 1..Len(ps)}),
         term_gates |-> <<>>,
         dt |-> None,
         circuit |-> None]

\* cls(*parts): the local heap after it, the error raised and the returned value
ConstructLocal(lheap, heap, parts) ==
    IF LocalInitError(heap, parts) # ""
    THEN [lheap |-> lheap, err |-> LocalInitError(heap, parts), val |-> None]
    ELSE [lheap |-> Append(lheap, LocalInit(heap, parts)), err |-> "",
          val |-> <<"local", Len(lheap) + 1>>]

\* the odd bonds without the wrap to qubit 0
OddTermsNoWrap(nqubits, term) ==
    [i \in 1..(nqubits \div 2) |-> << <<2 * (i - 1) + 1, 2 * (i - 1) + 2>>, term >>]

\* LocalHamiltonian.from_single_term, the two dicts
EvenTerms(nqubits, term) ==
    [i \in 1..((nqubits \div 2) + (nqubits % 2)) |->
        << <<2 * (i - 1), (2 * (i - 1) + 1) % nqubits>>, term >>]

OddTerms(nqubits, term) ==
    [i \in 1..(nqubits \div 2) |->
        << <<2 * (i - 1) + 1, (2 * (i - 1) + 2) % nqubits>>, term >>]

SingleTermParts(nqubits, term) == <<EvenTerms(nqubits, term), OddTerms(nqubits, term)>>

(***************************************************************************)
(* LocalHamiltonian.dense_hamiltonian                                       *)
(*                                                                         *)
(* A tensor of 2k axes of size 2 is kept as its matrix of side 2^k; its    *)
(* element at a sequence of 2k bits is found as reshape finds it (the      *)
(* first axis is the most significant bit).  An einsum label is the        *)
(* position of its character in EINSUM_CHARS, from 0.                      *)
(***************************************************************************)
EinsumCharsLen == 52

RECURSIVE FromBits(_)
FromBits(bits) ==
    IF bits = <<>> THEN 0
    ELSE 2 * FromBits(SubSeq(bits, 1, Len(bits) - 1)) + bits[Len(bits)]

\* matrix.reshape(2 * k * (2,))[bits]
TensorAt(m, bits) ==
    LET k == Len(bits) \div 2
    IN  m.rows[FromBits(SubSeq(bits, 1, k)) + 1][FromBits(SubSeq(bits, k + 1, 2 * k)) + 1]

\* the bit that the output index (row, col) of an n qubit matrix gives to a
\* label: labels 0..n-1 are the row axes, n..2n-1 the column axes
LabelBit(label, row, col, n) ==
    IF label < n THEN (row \div (2 ^ (n - 1 - label))) % 2
    ELSE (col \div (2 ^ (2 * n - 1 - label))) % 2

\* tc with the column labels ahead of the row labels
TermLabelsTransposed(targets, n) ==
    [j \in 1..(2 * Len(targets)) |->
        IF j <= Len(targets) THEN targets[j] + n ELSE targets[j - Len(targets)]]

\* tc: the labels of the term's axes
TermLabels(targets, n) ==
    [j \in 1..(2 * Len(targets)) |->
        IF j <= Len(targets) THEN targets[j] ELSE targets[j - Len(targets)] + n]

\* ec: the labels not in tc, in the order of chars
EyeLabels(tc, n) ==
    LET InTc(c) == \E j \in 1..Len(tc) : tc[j] = c
    IN  SelectSeq([c \in 1..(2 * n) |-> c - 1], LAMBDA c : ~InTc(c))

\* np.einsum(f"{tc},{ec}->{chars}", tmat, emat), reshaped to a matrix of side 2^n
Einsum(tc, ec, tmat, emat, n) ==
    [r \in 1..(2 ^ n) |-> [c \in 1..(2 ^ n) |->
        TensorAt(tmat, [j \in 1..Len(tc) |-> LabelBit(tc[j], r - 1, c - 1, n)])
      * TensorAt(emat, [j \in 1..Len(ec) |-> LabelBit(ec[j], r - 1, c - 1, n)])]]

\* the loop of dense_hamiltonian: matrix += einsum(...) over the placements
RECURSIVE DenseSum(_, _, _, _, _)
DenseSum(heap, ps, n, dtype, acc) ==
    IF ps = <<>> THEN acc
    ELSE LET targets == Head(ps)[1]
             term == heap[Head(ps)[2]]
             tc == TermLabels(targets, n)
             ec == EyeLabels(tc, n)
             emat == Eye(2 ^ (n - Len(targets)), dtype)
             e == Einsum(tc, ec, term.matrix, emat, n)
         IN  DenseSum(heap, Tail(ps), n, dtype,
                      [r \in 1..(2 ^ n) |-> [c \in 1..(2 ^ n) |-> acc[r][c] + e[r][c]]])

\* chars[i] and chars[i + self.nqubits] exist for every i of targets: chars holds
\* 2 * nqubits characters, and indexing past its end raises IndexError
CharsInRange(targets, n) ==
    \A j \in 1..Len(targets) : targets[j] + n < 2 * n

\* LocalHamiltonian.dense_hamiltonian
DenseHamiltonianCall(heap, L) ==
    IF 2 * L.nqubits > EinsumCharsLen THEN Raise(heap, "NotImplementedError")
    ELSE IF \E k \in 1..Len(Placements(L.parts)) : ~CharsInRange(Placements(L.parts)[k][1], L.nqubits)
    THEN Raise(heap, "IndexError")
    ELSE LET zeros == [r \in 1..(2 ^ L.nqubits) |-> [c \in 1..(2 ^ L.nqubits) |-> 0]]
             rows == DenseSum(heap, Placements(L.parts), L.nqubits, Val(L.dtype), zeros)
         IN  Construct(heap, IntArg(L.nqubits), Mat(Val(L.dtype), rows))

(***************************************************************************)
(* The Trotter circuit                                                     *)
(*                                                                         *)
(* term_gates (a dict from term to a set of gates) is a sequence of        *)
(* [term, gates] records, one per term, in insertion order.                *)
(***************************************************************************)
\* dt / 2.0 (time steps are even numbers of half units, so this is exact)
Half(dt) == dt \div 2

\* gates.Unitary(parameter, *targets)
Unitary(parameter, targets) == [parameter |-> parameter, targets |-> targets]

\* Circuit(nqubits), and Circuit.add(gate)
NewCircuit(nqubits) == [nqubits |-> nqubits, queue |-> <<>>]
CircuitAdd(c, gate) == [c EXCEPT !.queue = Append(@, gate)]

\* term_gates[term].add(gate), or term_gates[term] = {gate} for a new term
TermGatesAdd(tg, term, gate) ==
    IF \E k \in 1..Len(tg) : tg[k].term = term
    THEN [k \in 1..Len(tg) |->
             IF tg[k].term = term THEN [tg[k] EXCEPT !.gates = @ \cup {gate}] ELSE tg[k]]
    ELSE Append(tg, [term |-> term, gates |-> {gate}])

\* one turn of a loop of _create_circuit; st holds the Hamiltonian heap, the
\* gate heap, term_gates, the circuit, the log of the exponentials the backend
\* was asked for, which of them raises (fault, 0 for none) and whether one did
GateStep(st, targets, term, dt) ==
    LET c == ExpCall(st.hams[term], Half(dt), Len(st.expm) + 1 # st.fault)
        gate == Len(st.gates) + 1
        asked == IF c.computed THEN Append(st.expm, term) ELSE st.expm
    IN  IF c.raised
        THEN [st EXCEPT !.hams = [@ EXCEPT ![term] = c.obj], !.expm = asked, !.raised = TRUE]
        ELSE [st EXCEPT !.hams = [@ EXCEPT ![term] = c.obj],
                        !.gates = Append(@, Unitary(c.obj.exp.result, targets)),
                        !.tg = TermGatesAdd(@, term, gate),
                        !.circuit = CircuitAdd(@, gate),
                        !.expm = asked]

RECURSIVE Sweep(_, _, _)
Sweep(st, ps, dt) ==
    IF ps = <<>> \/ st.raised THEN st
    ELSE Sweep(GateStep(st, Head(ps)[1], Head(ps)[2], dt), Tail(ps), dt)

\* self.parts[::-1]
BackwardParts(parts) == Reverse(parts)

\* LocalHamiltonian._create_circuit
CreateCircuit(heap, gheap, L, dt, fault) ==
    LET st0 == [hams |-> heap, gates |-> gheap, tg |-> L.term_gates,
                circuit |-> NewCircuit(L.nqubits), expm |-> <<>>,
                fault |-> fault, raised |-> FALSE]
        st1 == Sweep(st0, Placements(L.parts), dt)
    IN  Sweep(st1, Placements(BackwardParts(L.parts)), dt)

RECURSIVE SetToSeq(_)
SetToSeq(S) ==
    IF S = {} THEN <<>>
    ELSE LET x == CHOOSE y \in S : \A z \in S : y <= z
         IN  <<x>> \o SetToSeq(S \ {x})

\* the (gate, term) pairs of the dict comprehension in LocalHamiltonian.circuit
RECURSIVE GateTerms(_)
GateTerms(tg) ==
    IF tg = <<>> THEN <<>>
    ELSE LET gs == SetToSeq(Head(tg).gates)
         IN  [k \in 1..Len(gs) |-> <<gs[k], Head(tg).term>>] \o GateTerms(Tail(tg))

\* one entry of that comprehension, gate: term.exp(dt / 2.0); st.params is the
\* dict under construction
ParameterStep(st, gate, term, dt) ==
    LET c == ExpCall(st.hams[term], Half(dt), Len(st.expm) + 1 # st.fault)
        asked == IF c.computed THEN Append(st.expm, term) ELSE st.expm
    IN  IF c.raised
        THEN [st EXCEPT !.hams = [@ EXCEPT ![term] = c.obj], !.expm = asked, !.raised = TRUE]
        ELSE [st EXCEPT !.hams = [@ EXCEPT ![term] = c.obj],
                        !.params = Append(@, <<gate, c.obj.exp.result>>),
                        !.expm = asked]

RECURSIVE NewParameters(_, _, _)
NewParameters(st, pairs, dt) ==
    IF pairs = <<>> \/ st.raised THEN st
    ELSE NewParameters(ParameterStep(st, Head(pairs)[1], Head(pairs)[2], dt), Tail(pairs), dt)

\* Circuit.set_parameters(dict): every gate of the dict takes its new parameter
RECURSIVE CircuitSetParameters(_, _)
CircuitSetParameters(gheap, params) ==
    IF params = <<>> THEN gheap
    ELSE CircuitSetParameters([gheap EXCEPT ![Head(params)[1]].parameter = Head(params)[2]],
                              Tail(params))

\* self._circuit.set_parameters({gate: term.exp(dt / 2.0) ...}): the dict is
\* built first; when an exponential raises set_parameters is not called
SetParameters(heap, gheap, L, dt, fault) ==
    LET st0 == [hams |-> heap, gates |-> gheap, params |-> <<>>, expm |-> <<>>,
                fault |-> fault, raised |-> FALSE]
        st1 == NewParameters(st0, GateTerms(L.term_gates), dt)
    IN  IF st1.raised THEN st1
        ELSE [st1 EXCEPT !.gates = CircuitSetParameters(@, st1.params)]

\* circuit that builds anew for every new dt
CircuitBranchRebuild(L, dt) ==
    IF Some(dt) # L.dt THEN "create" ELSE "cached"

\* LocalHamiltonian.circuit: which branch a call with dt takes
CircuitBranch(L, dt) ==
    IF Some(dt) # L.dt
    THEN IF L.circuit = None THEN "create" ELSE "update"
    ELSE "cached"

\* scaling that multiplies the matrices of the terms themselves
ScaleTermsInPlace(out, order, o, new_terms) ==
    [out |-> [out EXCEPT !.heap =
                 [i \in 1..Len(out.heap) |->
                     IF \E k \in 1..Len(order) : order[k] = i
                     THEN [out.heap[i] EXCEPT !.matrix = MatScale(o.v, @)]
                     ELSE out.heap[i]]],
     new_terms |-> [t \in {order[k] : k \in 1..Len(order)} |-> t]]

\* LocalHamiltonian.__mul__: the new terms, made in some order of terms_set;
\* new_terms maps a term to the id of o * term
RECURSIVE ScaleTerms(_, _, _, _)
ScaleTerms(out, order, o, new_terms) ==
    IF order = <<>> \/ out.err # "" THEN [out |-> out, new_terms |-> new_terms]
    ELSE LET m == MulCall(out.heap, Head(order), o)
         IN  ScaleTerms(m, Tail(order), o,
                        IF m.err = "" THEN new_terms @@ (Head(order) :> m.val[2])
                        ELSE new_terms)

\* the new parts: every term replaced by its entry of new_terms
ScaledParts(parts, new_terms) ==
    [i \in 1..Len(parts) |->
        [k \in 1..Len(parts[i]) |-> <<parts[i][k][1], new_terms[parts[i][k][2]]>>]]

Orders(S) == {q \in [1..Cardinality(S) -> S] : \A i, j \in 1..Cardinality(S) : q[i] = q[j] => i = j}

(***************************************************************************)
(* Inputs of the local operations.                                         *)
(***************************************************************************)
\* the bond term of the transverse field Ising model, -Z(x)Z - X(x)I
TFIM == Mat("complex128", << <<-1, 0, -1, 0>>, <<0, 1, 0, -1>>, <<-1, 0, 1, 0>>, <<0, -1, 0, -1>> >>)
\* a two qubit matrix with sixteen different entries
Counting == Mat("complex128", << <<1, 2, 3, 4>>, <<5, 6, 7, 8>>, <<9, 10, 11, 12>>, <<13, 14, 15, 16>> >>)
PauliX == Mat("complex128", << <<0, 1>>, <<1, 0>> >>)
PauliZ64 == Mat("complex64", << <<1, 0>>, <<0, -1>> >>)

\* the terms at hand: two on two qubits, two on one qubit (one of another dtype)
LocalTerms == <<HamInit(2, TFIM), HamInit(2, Counting), HamInit(1, PauliX), HamInit(1, PauliZ64)>>

\* shapes of explicit parts; the second component of a pair names a slot (1 or 2)
\* that the caller fills with a term
ThreeParts == << << <<<<0, 1>>, 1>> >>, << <<<<1, 2>>, 2>> >>, << <<<<2, 0>>, 1>> >> >>
MixedParts == << << <<<<0, 2>>, 1>>, <<<<1>>, 2>> >>, << <<<<2, 1>>, 1>> >> >>
\* one term on the qubits 0 and 2: the union of the subsets has two elements
GapParts == << << <<<<0, 2>>, 1>> >> >>
Layouts == {ThreeParts, MixedParts, GapParts}

Instantiate(layout, t1, t2) ==
    [i \in 1..Len(layout) |->
        [k \in 1..Len(layout[i]) |->
            <<layout[i][k][1], IF layout[i][k][2] = 1 THEN t1 ELSE t2>>]]

TermArgs == {0} \cup HamIds
RingSizes == 2..MaxRing
DtValues == {2, 4}
\* which request of an exponential to the backend raises in a circuit call: the
\* first, the second, or none (0); no local Hamiltonian here has more than two terms
NoFault == 0
FaultPoints == NoFault..2
ScaleOperands == {NumOp(2), OtherOp}
\* the argument of a caller's own exp call on a term: dt / 2.0 of the smaller dt
TermExpArgs == {1}
LocalIds == 1..Len(locals)
HamCap == Len(LocalTerms) + MaxNewHams
\* the Hamiltonians that are a term of some local Hamiltonian
UsedTerms == UNION {locals[l].terms_set : l \in LocalIds}

(***************************************************************************)
(* Operations on local Hamiltonians.                                       *)
(***************************************************************************)
NewLocal(layout, t1, t2) ==
    LET out == ConstructLocal(locals, hams, Instantiate(layout, t1, t2))
    IN  /\ Len(locals) < MaxBuilt
        /\ locals' = out.lheap
        /\ ret' = Ret("LocalHamiltonian", <<layout, t1, t2>>, out.err, out.val, <<>>)
        /\ UNCHANGED <<hams, ncalls, circuits, gates, sched>>

FromSingleTerm(nqubits, term) ==
    LET out == ConstructLocal(locals, hams, SingleTermParts(nqubits, term))
    IN  /\ Len(locals) < MaxBuilt
        /\ locals' = out.lheap
        /\ ret' = Ret("from_single_term", <<nqubits, term>>, out.err, out.val, <<>>)
        /\ UNCHANGED <<hams, ncalls, circuits, gates, sched>>

DenseHamiltonian(self) ==
    /\ Len(hams) < HamCap
    /\ Returns("dense_hamiltonian", <<self>>, DenseHamiltonianCall(hams, locals[self]))
    /\ UNCHANGED <<locals, circuits, gates, sched>>

ScaleLocal(self, o) ==
    /\ Len(locals) < MaxLocals
    /\ Len(hams) + Cardinality(locals[self].terms_set) <= HamCap
    /\ \E order \in Orders(locals[self].terms_set) :
          LET sc == ScaleTerms([heap |-> hams, err |-> "", val |-> None], order, o, <<>>)
              out == IF sc.out.err # ""
                     THEN [lheap |-> locals, err |-> sc.out.err, val |-> None]
                     ELSE ConstructLocal(locals, sc.out.heap,
                                         ScaledParts(locals[self].parts, sc.new_terms))
          IN  /\ hams' = sc.out.heap
              /\ ncalls' = Counted(sc.out.heap)
              /\ locals' = out.lheap
              /\ ret' = Ret("scale", <<self, o>>, out.err, out.val, <<>>)
              /\ UNCHANGED <<circuits, gates, sched>>

Circuit(self, dt, fault) ==
    LET L == locals[self]
        branch == CircuitBranch(L, dt)
        st0 == [hams |-> hams, gates |-> gates, expm |-> <<>>, raised |-> FALSE]
        cr == CreateCircuit(hams, gates, L, dt, fault)
        up == SetParameters(hams, gates, L, dt, fault)
        st == IF branch = "create" THEN cr ELSE IF branch = "update" THEN up ELSE st0
    IN  /\ hams' = st.hams
        /\ gates' = st.gates
        /\ circuits' = IF branch = "create" THEN Append(circuits, cr.circuit) ELSE circuits
        /\ locals' = IF branch = "create"
                     THEN [locals EXCEPT ![self].dt = Some(dt),
                                         ![self].circuit = Some(Len(circuits) + 1),
                                         ![self].term_gates = cr.tg]
                     ELSE IF branch = "update"
                     THEN [locals EXCEPT ![self].dt = Some(dt)]
                     ELSE locals
        /\ ret' = [Ret("circuit", <<self, dt>>,
                       IF st.raised THEN "NotImplementedError" ELSE "",
                       IF st.raised THEN None ELSE locals'[self].circuit, st.expm)
                      EXCEPT !.branch = branch]
        /\ UNCHANGED <<ncalls, sched>>

InitLocal ==
    /\ hams = LocalTerms
    /\ ncalls = [i \in 1..Len(LocalTerms) |-> NoCalls]
    /\ locals = <<>>
    /\ circuits = <<>>
    /\ gates = <<>>
    /\ ret = Ret("", <<>>, "", None, <<>>)
    /\ sched = NoSchedulers

NextLocal ==
    \/ \E layout \in Layouts, t1 \in TermArgs, t2 \in TermArgs : NewLocal(layout, t1, t2)
    \/ \E n \in RingSizes, term \in TermArgs : FromSingleTerm(n, term)
    \/ \E self \in LocalIds : DenseHamiltonian(self)
    \/ \E self \in LocalIds, o \in ScaleOperands : ScaleLocal(self, o)
    \/ \E self \in LocalIds, dt \in DtValues : Circuit(self, dt, NoFault)
    \/ \E self \in UsedTerms, a \in TermExpArgs : Exp(self, a, TRUE)

\* every operation of a local Hamiltonian, on a backend whose exponential succeeds
SpecLocal == InitLocal /\ [][NextLocal]_vars

(***************************************************************************)
(* The Trotter circuit on a backend whose exponential may raise: the       *)
(* constructors, circuit() and a caller's own exp() on a term.             *)
(***************************************************************************)
NextTrotter ==
    \/ \E layout \in Layouts, t1 \in TermArgs, t2 \in TermArgs : NewLocal(layout, t1, t2)
    \/ \E n \in RingSizes, term \in TermArgs : FromSingleTerm(n, term)
    \/ \E self \in LocalIds, dt \in DtValues, fault \in FaultPoints : Circuit(self, dt, fault)
    \/ \E self \in UsedTerms, a \in TermExpArgs, ok \in BOOLEAN : Exp(self, a, ok)

SpecTrotter == InitLocal /\ [][NextTrotter]_vars

(***************************************************************************)
(* Construction alone: both constructors, on valid and invalid arguments.  *)
(***************************************************************************)
NextConstruct ==
    \/ /\ \E c \in ConstructorArgs : NewHamiltonian(c[1], c[2])
       /\ Len(hams') <= HamCap
    \/ \E layout \in Layouts, t1 \in TermArgs, t2 \in TermArgs : NewLocal(layout, t1, t2)
    \/ \E n \in RingSizes, term \in TermArgs : FromSingleTerm(n, term)

SpecConstruct == InitLocal /\ [][NextConstruct]_vars

(***************************************************************************)
(* Properties of the dense Hamiltonian.                                    *)
(***************************************************************************)
ArithOps == {"add", "sub", "rsub", "mul", "matmul"}

\* the cache of h holds a scalar together with the exponential for that scalar,
\* or nothing
CacheConsistent(h) ==
    \/ h.exp = [a |-> None, result |-> None]
    \/ h.exp.a # None /\ h.exp.result = Some(Expm(Val(h.exp.a), h.matrix))

\* C4: every exp(a) call that returns, returns exp(-i*a*H) for its own a and
\* leaves the cache holding that a with that result; the backend computes the
\* exponential in the call exactly when a differs from the cached scalar, so a
\* repeated a computes nothing and a new a replaces the entry.
C4_ExpSingleSlotCache ==
    [][(ret'.op = "exp" /\ ret'.err = "") =>
          LET self == ret'.args[1]
              a == ret'.args[2]
              want == Expm(a, hams[self].matrix)
          IN  /\ ret'.val = Some(want)
              /\ hams'[self].exp = [a |-> Some(a), result |-> Some(want)]
              /\ hams'[self].matrix = hams[self].matrix
              /\ (hams[self].exp.a = Some(a) => ret'.expm = <<>> /\ hams' = hams)
              /\ (hams[self].exp.a # Some(a) => ret'.expm = <<self>>)]_vars

\* C4 where no earlier exp call on the object raised: a returning exp(a) call on
\* a Hamiltonian whose cache is consistent behaves as C4 says.
C4_ConsistentCacheSingleSlot ==
    [][(ret'.op = "exp" /\ ret'.err = "" /\ CacheConsistent(hams[ret'.args[1]])) =>
          LET self == ret'.args[1]
              a == ret'.args[2]
              want == Expm(a, hams[self].matrix)
          IN  /\ ret'.val = Some(want)
              /\ hams'[self].exp = [a |-> Some(a), result |-> Some(want)]
              /\ (hams[self].exp.a = Some(a) <=> ret'.expm = <<>>)]_vars

\* an exp(a) call returned, without computing, what an earlier raising call left
\* in the cache: not exp(-i*a*H)
C4_Witness ==
    /\ ret.op = "exp"
    /\ ret.err = ""
    /\ ret.expm = <<>>
    /\ ret.val # Some(Expm(ret.args[2], hams[ret.args[1]].matrix))

\* C15: an exp(a) call in which computing the exponential raises leaves the
\* exponential cache of the Hamiltonian as it was before the call, and an exp(a)
\* call that returns never returns an absent result or the result stored for
\* another scalar: it returns the exponential for its own a.
C15_FailedExpLeavesCache ==
    [][ret'.op = "exp" =>
          LET self == ret'.args[1]
              a == ret'.args[2]
          IN  /\ ret'.err # "" => hams'[self].exp = hams[self].exp
              /\ ret'.err = "" =>
                    /\ ret'.val # None
                    /\ Val(ret'.val) = Expm(a, hams[self].matrix)]_vars

\* what the code does on a raising exp(a): the scalar of the cache is already a,
\* the result is the one the cache held before, and nothing else changes
C15_FailedExpKeepsScalar ==
    [][(ret'.op = "exp" /\ ret'.err # "") =>
          LET self == ret'.args[1]
          IN  /\ hams'[self].exp.a = Some(ret'.args[2])
              /\ hams'[self].exp.result = hams[self].exp.result
              /\ hams[self].exp.a # Some(ret'.args[2])
              /\ hams' = [hams EXCEPT ![self].exp.a = Some(ret'.args[2])]]_vars

\* an exp(a) call raised and left the cache holding a without the exponential
\* for a
C15_Witness ==
    /\ ret.op = "exp"
    /\ ret.err # ""
    /\ hams[ret.args[1]].exp.a = Some(ret.args[2])
    /\ hams[ret.args[1]].exp.result # Some(Expm(ret.args[2], hams[ret.args[1]].matrix))

\* after a raising exp(2) on a Hamiltonian that held exp(1), exp(2) returned the
\* result stored for the scalar 1
C15_StaleWitness ==
    /\ ret.op = "exp"
    /\ ret.err = ""
    /\ ret.args[2] = 2
    /\ ret.val = Some(Expm(1, hams[ret.args[1]].matrix))

\* C5 as claimed: the backend eigen-decomposition runs at most once for an
\* instance, whichever of eigenvalues() and eigenvectors() is called first.
C5_SingleDecomposition ==
    \A i \in HamIds : ncalls[i].eigvalsh + ncalls[i].eigh <= 1

\* C5 amended: eigenvalues() runs the values-only solver only while no
\* eigenvalues are cached and otherwise reuses them (also those the joint
\* decomposition left); eigenvectors() runs the joint decomposition whenever no
\* eigenvectors are cached, also when eigenvalues are, and stores its
\* eigenvalues over the cached ones, which are equal; each solver runs at most
\* once for an instance.
C5_EigenCaches ==
    [][/\ \A i \in 1..Len(hams') : ncalls'[i].eigvalsh <= 1 /\ ncalls'[i].eigh <= 1
       /\ \A i \in HamIds :
             hams[i].eigenvalues # None => hams'[i].eigenvalues = hams[i].eigenvalues
       /\ ret'.op = "eigenvalues" =>
             LET i == ret'.args[1]
             IN  /\ ret'.val = hams'[i].eigenvalues
                 /\ ret'.val # None
                 /\ ncalls'[i].eigh = ncalls[i].eigh
                 /\ ncalls'[i].eigvalsh =
                       ncalls[i].eigvalsh + (IF hams[i].eigenvalues = None THEN 1 ELSE 0)
       /\ ret'.op = "eigenvectors" =>
             LET i == ret'.args[1]
             IN  /\ ret'.val = hams'[i].eigenvectors
                 /\ ret'.val # None
                 /\ ncalls'[i].eigvalsh = ncalls[i].eigvalsh
                 /\ ncalls'[i].eigh =
                       ncalls[i].eigh + (IF hams[i].eigenvectors = None THEN 1 ELSE 0)]_vars

\* eigenvalues() came first and eigenvectors() then ran the second decomposition
C5_Witness ==
    /\ ret.op = "eigenvectors"
    /\ ncalls[ret.args[1]].eigvalsh = 1
    /\ ncalls[ret.args[1]].eigh = 1

\* C6: an arithmetic operator that returns a Hamiltonian returns a new object,
\* none of its operands, leaves every Hamiltonian that existed (its operands
\* among them) as it was, caches included, and the new object has an empty
\* exponential cache.
C6_ArithmeticReturnsNew ==
    [][(ret'.op \in ArithOps /\ ret'.err = "" /\ ret'.val[1] = "ham") =>
          LET new == ret'.val[2]
          IN  /\ new \notin HamIds
              /\ new \in 1..Len(hams')
              /\ \A i \in HamIds : hams'[i] = hams[i] /\ ncalls'[i] = ncalls[i]
              /\ hams'[new].exp = [a |-> None, result |-> None]]_vars

\* two different operands, the first with all its caches filled, were added
C6_Witness ==
    /\ ret.op = "add"
    /\ ret.err = ""
    /\ ret.args[2].kind = "ham"
    /\ ret.args[2].v # ret.args[1]
    /\ hams[ret.args[1]].eigenvectors # None
    /\ hams[ret.args[1]].exp.a # None
    /\ hams[ret.args[2].v].eigenvalues # None

(***************************************************************************)
(* Properties of the local Hamiltonian, stated without the operators that  *)
(* model its code.                                                         *)
(***************************************************************************)
\* the placements of parts P_1..P_m in the order that visits the parts in `order`
RECURSIVE InPartOrder(_, _)
InPartOrder(parts, order) ==
    IF order = <<>> THEN <<>>
    ELSE parts[Head(order)] \o InPartOrder(parts, Tail(order))

\* forward sweep P_1..P_m followed by backward sweep P_m..P_1
SymmetricSweep(parts) ==
    LET m == Len(parts)
    IN  InPartOrder(parts, [i \in 1..m |-> i]) \o InPartOrder(parts, [i \in 1..m |-> m + 1 - i])

\* exp(-i*term*dt/2)
HalfStepExp(term, dt) == CHOOSE x \in {Expm(a, term.matrix) : a \in 0..dt} : 2 * x[2] = dt

\* C1: the first trotter_circuit(dt) call, when it returns, has built a circuit
\* of 2*N gates, one per
\* placement with the parts in order P_1..P_m and then one per placement with
\* the parts in order P_m..P_1; each gate acts on its placement's qubit tuple and
\* carries exp(-i*term*dt/2) of its placement's term.
C1_FirstCallBuildsSymmetricSweep ==
    [][(ret'.op = "circuit" /\ ret'.err = "" /\ locals[ret'.args[1]].circuit = None) =>
          LET L == locals[ret'.args[1]]
              dt == ret'.args[2]
              sweep == SymmetricSweep(L.parts)
              queue == circuits'[Val(ret'.val)].queue
          IN  /\ Len(queue) = 2 * Len(Placements(L.parts))
              /\ Len(queue) = Len(sweep)
              /\ \A k \in 1..Len(queue) :
                    /\ gates'[queue[k]].targets = sweep[k][1]
                    /\ gates'[queue[k]].parameter = Some(HalfStepExp(hams[sweep[k][2]], dt))
              /\ \A j, k \in 1..Len(queue) : queue[j] = queue[k] => j = k
              /\ Val(ret'.val) \notin 1..Len(circuits)]_vars

\* C1 where no exp call on a term raised before: the first trotter_circuit(dt)
\* call on a local Hamiltonian whose terms all have a consistent cache, when it
\* returns, has built the symmetric sweep with exp(-i*term*dt/2) in every gate.
C1_ConsistentCachesSymmetricSweep ==
    [][(/\ ret'.op = "circuit"
        /\ ret'.err = ""
        /\ locals[ret'.args[1]].circuit = None
        /\ \A t \in locals[ret'.args[1]].terms_set : CacheConsistent(hams[t])) =>
          LET L == locals[ret'.args[1]]
              dt == ret'.args[2]
              sweep == SymmetricSweep(L.parts)
              queue == circuits'[Val(ret'.val)].queue
          IN  /\ Len(queue) = Len(sweep)
              /\ \A k \in 1..Len(queue) :
                    /\ gates'[queue[k]].targets = sweep[k][1]
                    /\ gates'[queue[k]].parameter = Some(HalfStepExp(hams[sweep[k][2]], dt))]_vars

\* a first trotter_circuit call returned a circuit in which a gate carries no
\* exponential, the absent result a raising exp call left in its term's cache
C1_Witness ==
    /\ ret.op = "circuit"
    /\ ret.branch = "create"
    /\ ret.err = ""
    /\ \E k \in 1..Len(circuits[Val(ret.val)].queue) :
          gates[circuits[Val(ret.val)].queue[k]].parameter = None

\* C2: after every call, every gate of a built circuit carries
\* exp(-i*term*dt/2) of its placement's term for the dt of the latest
\* trotter_circuit call on its local Hamiltonian, hence returning to an earlier
\* dt restores the parameters of that dt; the remembered dt is that of the latest
\* call and only trotter_circuit changes it.
C2_GatesFollowLatestDt ==
    [][/\ \A l \in 1..Len(locals') :
             locals'[l].circuit # None =>
                LET sweep == SymmetricSweep(locals'[l].parts)
                    queue == circuits'[Val(locals'[l].circuit)].queue
                    dt == IF ret'.op = "circuit" /\ ret'.args[1] = l
                          THEN ret'.args[2] ELSE Val(locals[l].dt)
                IN  /\ locals'[l].dt = Some(dt)
                    /\ \A k \in 1..Len(queue) :
                          gates'[queue[k]].parameter = Some(HalfStepExp(hams'[sweep[k][2]], dt))
       /\ \A i \in HamIds : hams'[i].matrix = hams[i].matrix]_vars

\* a trotter_circuit call returned the built circuit although a gate does not
\* carry exp(-i*term*dt/2) for the dt of that call
C2_Witness ==
    /\ ret.op = "circuit"
    /\ ret.err = ""
    /\ ret.branch # "create"
    /\ LET L == locals[ret.args[1]]
           sweep == SymmetricSweep(L.parts)
           queue == circuits[Val(ret.val)].queue
       IN  /\ Len(queue) = Len(sweep)
           /\ \E k \in 1..Len(queue) :
                 gates[queue[k]].parameter # Some(HalfStepExp(hams[sweep[k][2]], ret.args[2]))

\* C3: a trotter_circuit call on a local Hamiltonian whose circuit is built
\* returns that circuit object; no circuit changes, no gate is made, every gate
\* keeps its qubits, the term to gates map is unchanged; when dt is the dt of
\* the last call nothing changes at all.
C3_LaterCallsKeepTopology ==
    [][(ret'.op = "circuit" /\ locals[ret'.args[1]].circuit # None) =>
          LET self == ret'.args[1]
          IN  /\ ret'.err = "" => ret'.val = locals[self].circuit
              /\ locals'[self].circuit = locals[self].circuit
              /\ circuits' = circuits
              /\ Len(gates') = Len(gates)
              /\ \A g \in 1..Len(gates) : gates'[g].targets = gates[g].targets
              /\ locals'[self].term_gates = locals[self].term_gates
              /\ locals'[self].parts = locals[self].parts
              /\ (locals[self].dt = Some(ret'.args[2]) =>
                     UNCHANGED <<hams, ncalls, locals, circuits, gates, sched>>)]_vars

\* a call repeated the dt of the last call on a built circuit
C3_Witness ==
    /\ ret.op = "circuit"
    /\ ret.branch = "cached"
    /\ locals[ret.args[1]].circuit # None

\* C7: in one trotter_circuit call the backend computes the exponential of a
\* term at most once, and not at all when dt is the dt of the last call.
C7_OneExponentialPerTerm ==
    [][ret'.op = "circuit" =>
          /\ \A j, k \in 1..Len(ret'.expm) : ret'.expm[j] = ret'.expm[k] => j = k
          /\ \A k \in 1..Len(ret'.expm) : ret'.expm[k] \in locals[ret'.args[1]].terms_set
          /\ (locals[ret'.args[1]].dt = Some(ret'.args[2]) => ret'.expm = <<>>)]_vars

\* one exponential served the eight gates of a ring of four bonds of one term
C7_Witness ==
    /\ ret.op = "circuit"
    /\ ret.err = ""
    /\ Len(ret.expm) = 1
    /\ Cardinality(locals[ret.args[1]].terms_set) = 1
    /\ Len(circuits[Val(ret.val)].queue) = 8

\* C8: scale(c) returns a new LocalHamiltonian with the same parts, the same
\* qubit subsets in the same order and every term replaced by a new Hamiltonian
\* holding c times the matrix of the original term; one new Hamiltonian is made
\* per distinct term, so two placements share a term in the result exactly when
\* they shared one in the original; every object that existed is unchanged and
\* the result has no circuit, no dt and no gates.
C8_ScaleOncePerTerm ==
    [][(ret'.op = "scale" /\ ret'.err = "") =>
          LET L == locals[ret'.args[1]]
              c == ret'.args[2].v
              R == locals'[ret'.val[2]]
              ps == Placements(L.parts)
              rs == Placements(R.parts)
          IN  /\ ret'.val[2] \notin LocalIds
              /\ Len(locals') = Len(locals) + 1
              /\ Len(R.parts) = Len(L.parts)
              /\ \A i \in 1..Len(L.parts) :
                    /\ Len(R.parts[i]) = Len(L.parts[i])
                    /\ \A k \in 1..Len(L.parts[i]) :
                          /\ R.parts[i][k][1] = L.parts[i][k][1]
                          /\ R.parts[i][k][2] \notin HamIds
                          /\ hams'[R.parts[i][k][2]].nqubits = hams[L.parts[i][k][2]].nqubits
                          /\ hams'[R.parts[i][k][2]].matrix.rows =
                                [r \in 1..Len(hams[L.parts[i][k][2]].matrix.rows) |->
                                   [q \in 1..Len(hams[L.parts[i][k][2]].matrix.rows) |->
                                      c * hams[L.parts[i][k][2]].matrix.rows[r][q]]]
              /\ \A j, k \in 1..Len(ps) : (rs[j][2] = rs[k][2]) <=> (ps[j][2] = ps[k][2])
              /\ Len(hams') = Len(hams) + Cardinality({ps[k][2] : k \in 1..Len(ps)})
              /\ R.nqubits = L.nqubits
              /\ \A l \in LocalIds : locals'[l] = locals[l]
              /\ \A i \in HamIds : hams'[i] = hams[i]
              /\ UNCHANGED <<circuits, gates>>
              /\ R.circuit = None /\ R.dt = None /\ R.term_gates = <<>>]_vars

\* a local Hamiltonian with a built circuit and two terms, one of them placed
\* twice, was scaled
C8_Witness ==
    /\ ret.op = "scale"
    /\ ret.err = ""
    /\ locals[ret.args[1]].circuit # None
    /\ Cardinality(locals[ret.args[1]].terms_set) = 2
    /\ Len(Placements(locals[ret.args[1]].parts)) = 3

\* bit of qubit q (0 is the most significant) in the basis state x of n qubits
QubitBit(x, q, n) == (x \div (2 ^ (n - 1 - q))) % 2

\* the number whose binary digits are the bits of x at the qubits of targets,
\* the first target the most significant
RECURSIVE SubIndex(_, _, _)
SubIndex(x, targets, n) ==
    IF targets = <<>> THEN 0
    ELSE 2 * SubIndex(x, SubSeq(targets, 1, Len(targets) - 1), n)
            + QubitBit(x, targets[Len(targets)], n)

\* the rows of m on the qubits targets of an n qubit register, the identity on
\* the other qubits
Embedded(m, targets, n) ==
    [r \in 1..(2 ^ n) |-> [c \in 1..(2 ^ n) |->
        IF \A q \in (0..(n - 1)) \ TargetSet(targets) :
              QubitBit(r - 1, q, n) = QubitBit(c - 1, q, n)
        THEN m.rows[SubIndex(r - 1, targets, n) + 1][SubIndex(c - 1, targets, n) + 1]
        ELSE 0]]

\* the Kronecker product of two square matrices (rows only)
Kron(A, B) ==
    LET a == Len(A)
        b == Len(B)
    IN  [r \in 1..(a * b) |-> [c \in 1..(a * b) |->
            A[((r - 1) \div b) + 1][((c - 1) \div b) + 1] * B[((r - 1) % b) + 1][((c - 1) % b) + 1]]]

\* a two qubit matrix on the bond (i, i+1) or, for i = n-1, the bond (n-1, 0),
\* by tensor products where the bond is a pair of neighbours
OnBond(m, i, n) ==
    IF i < n - 1
    THEN Kron(Kron(Eye(2 ^ i, "").rows, m.rows), Eye(2 ^ (n - 2 - i), "").rows)
    ELSE Embedded(m, <<n - 1, 0>>, n)

RECURSIVE SumRows(_, _, _)
SumRows(f, k, n) ==
    IF k = 0 THEN [r \in 1..(2 ^ n) |-> [c \in 1..(2 ^ n) |-> 0]]
    ELSE LET rest == SumRows(f, k - 1, n)
         IN  [r \in 1..(2 ^ n) |-> [c \in 1..(2 ^ n) |-> rest[r][c] + f[k][r][c]]]

\* the parts are those of a ring of n bonds of the term t
IsRing(L, n, t) ==
    /\ Len(Placements(L.parts)) = n
    /\ {Placements(L.parts)[k] : k \in 1..n} = {<< <<i, (i + 1) % n>>, t >> : i \in 0..(n - 1)}

\* what C9 says of the value dense_hamiltonian returned for the local
\* Hamiltonian L: a new Hamiltonian D on nqubits qubits whose matrix is the sum
\* of the embedded terms, and the sum over the bonds for a ring
DenseIsSum(L, D, heap) ==
    LET n == L.nqubits
        ps == Placements(L.parts)
    IN  /\ D.nqubits = n
        /\ D.matrix.rows =
              SumRows([k \in 1..Len(ps) |-> Embedded(heap[ps[k][2]].matrix, ps[k][1], n)],
                      Len(ps), n)
        /\ \A t \in 1..Len(heap) :
              IsRing(L, n, t) =>
                 D.matrix.rows =
                    SumRows([k \in 1..n |-> OnBond(heap[t].matrix, k - 1, n)], n, n)

\* every qubit index of the local Hamiltonian is a position of its register
InRegister(L) ==
    \A k \in 1..Len(Placements(L.parts)) :
        \A j \in 1..Len(Placements(L.parts)[k][1]) :
            Placements(L.parts)[k][1][j] \in 0..(L.nqubits - 1)

\* C9: to_dense() of a LocalHamiltonian returns a new Hamiltonian on nqubits
\* qubits whose matrix is the sum over all placements of the term embedded on
\* its qubit subset, in the order of the subset, with the identity elsewhere;
\* for a ring of n bonds of one term it is the sum of the term on every bond of
\* the ring.
C9_DenseIsSumOfEmbeddings ==
    [][ret'.op = "dense_hamiltonian" =>
          /\ ret'.err = ""
          /\ ret'.val[2] \notin HamIds
          /\ DenseIsSum(locals[ret'.args[1]], hams'[ret'.val[2]], hams)
          /\ \A i \in HamIds : hams'[i] = hams[i]
          /\ UNCHANGED locals]_vars

\* C9, for the local Hamiltonians whose qubit indices all lie in the register:
\* to_dense() returns the sum of the embedded terms; for the others it raises
\* IndexError and returns nothing.
C9_InRegisterDenseIsSum ==
    [][ret'.op = "dense_hamiltonian" =>
          /\ \A i \in HamIds : hams'[i] = hams[i]
          /\ UNCHANGED locals
          /\ IF InRegister(locals[ret'.args[1]])
             THEN /\ ret'.err = ""
                  /\ ret'.val[2] \notin HamIds
                  /\ DenseIsSum(locals[ret'.args[1]], hams'[ret'.val[2]], hams)
             ELSE ret'.err = "IndexError" /\ hams' = hams]_vars

\* the dense form was built of a local Hamiltonian that places a term of
\* sixteen different entries on the qubits (0, 2) and (2, 1) and a one qubit term
C9_InRegisterWitness ==
    /\ ret.op = "dense_hamiltonian"
    /\ ret.err = ""
    /\ locals[ret.args[1]].parts = Instantiate(MixedParts, 2, 3)
    /\ hams[ret.val[2]].nqubits = 3

\* to_dense() was called on a local Hamiltonian of one term on the qubits
\* (0, 2), whose register has two qubits, and raised IndexError
C9_Witness ==
    /\ ret.op = "dense_hamiltonian"
    /\ ret.err = "IndexError"
    /\ locals[ret.args[1]].nqubits = 2
    /\ Placements(locals[ret.args[1]].parts)[1][1] = <<0, 2>>

\* C10: from_single_term(n, term) with a two qubit term and n >= 2 returns a
\* new LocalHamiltonian of two parts: the first holds the bonds (i, (i+1) mod n)
\* of even i, the second those of odd i, each bond once and all with the given
\* term; nqubits is n; for n = 4 the parts are
\* [{(0,1):T,(2,3):T}, {(1,2):T,(3,0):T}].
C10_RingOfBonds ==
    [][ret'.op = "from_single_term" =>
          LET n == ret'.args[1]
              t == ret'.args[2]
              L == locals'[ret'.val[2]]
              Bonds(parity) == {<< <<i, (i + 1) % n>>, t >> : i \in {j \in 0..(n - 1) : j % 2 = parity}}
          IN  IF t \in HamIds /\ hams[t].nqubits = 2 /\ n >= 2
              THEN /\ ret'.err = ""
                   /\ ret'.val[2] \notin LocalIds
                   /\ Len(L.parts) = 2
                   /\ \A p \in 1..2 :
                         /\ {L.parts[p][k] : k \in 1..Len(L.parts[p])} = Bonds(p - 1)
                         /\ Len(L.parts[p]) = Cardinality(Bonds(p - 1))
                   /\ Len(L.parts[1]) + Len(L.parts[2]) = n
                   /\ L.nqubits = n
                   /\ L.terms_set = {t}
                   /\ n = 4 => L.parts = << << << <<0, 1>>, t >>, << <<2, 3>>, t >> >>,
                                           << << <<1, 2>>, t >>, << <<3, 0>>, t >> >> >>
                   /\ L.circuit = None
              ELSE ret'.err # "" /\ locals' = locals]_vars

\* the ring of four qubits was built
C10_Witness ==
    /\ ret.op = "from_single_term"
    /\ ret.err = ""
    /\ ret.args[1] = 4
    /\ locals[ret.val[2]].nqubits = 4

(***************************************************************************)
(* Properties of the ring's parts.                                         *)
(***************************************************************************)
\* no qubit belongs to two placements of one part
PartsDisjoint(L) ==
    \A i \in 1..Len(L.parts) :
        \A j, k \in 1..Len(L.parts[i]) :
            j # k => TargetSet(L.parts[i][j][1]) \cap TargetSet(L.parts[i][k][1]) = {}

\* C11: in every LocalHamiltonian returned by from_single_term(n, term), for
\* every n >= 2, even or odd, the qubit subsets inside each part are pairwise
\* disjoint: no qubit belongs to two bonds of the same part.
C11_RingPartsDisjoint ==
    [][(ret'.op = "from_single_term" /\ ret'.err = "") =>
          PartsDisjoint(locals'[ret'.val[2]])]_vars

\* C11, as the code has it: the parts of the ring are disjoint exactly when n
\* is even or n is below 3; for an odd n >= 3 the even part holds the bonds
\* (0, 1) and (n-1, 0), which share the qubit 0.
C11_EvenRingPartsDisjoint ==
    [][(ret'.op = "from_single_term" /\ ret'.err = "") =>
          LET n == ret'.args[1]
              L == locals'[ret'.val[2]]
          IN  /\ PartsDisjoint(L) <=> (n % 2 = 0 \/ n < 3)
              /\ (n % 2 = 1 /\ n >= 3) =>
                    /\ \E k \in 1..Len(L.parts[1]) : L.parts[1][k][1] = <<0, 1>>
                    /\ \E k \in 1..Len(L.parts[1]) : L.parts[1][k][1] = <<n - 1, 0>>]_vars

\* the ring of three qubits was built: its even part holds two bonds on qubit 0
C11_Witness ==
    /\ ret.op = "from_single_term"
    /\ ret.err = ""
    /\ ret.args[1] = 3
    /\ ~PartsDisjoint(locals[ret.val[2]])

\* the gates of the built circuit of L act on positions of L's register only
GatesInRegister(L) ==
    L.circuit # None =>
        \A k \in 1..Len(circuits[Val(L.circuit)].queue) :
            LET g == gates[circuits[Val(L.circuit)].queue[k]]
            IN  \A j \in 1..Len(g.targets) : g.targets[j] \in 0..(L.nqubits - 1)

\* C16: every qubit index of every constructed LocalHamiltonian is a position of
\* its register (0 <= index < nqubits), so to_dense() never reads a label outside
\* the register and no gate of a trotter_circuit acts outside it.
C16_IndicesInRegister ==
    /\ \A l \in 1..Len(locals) : InRegister(locals[l]) /\ GatesInRegister(locals[l])
    /\ ret.op = "dense_hamiltonian" => ret.err # "IndexError"

\* what the constructors do guarantee: nqubits is the number of distinct qubit
\* indices of the parts, and the rings of from_single_term lie in their register
C16_RegisterCountsIndices ==
    [][/\ (ret'.op \in {"LocalHamiltonian", "from_single_term"} /\ ret'.err = "") =>
            LET L == locals'[ret'.val[2]]
                ps == Placements(L.parts)
            IN  L.nqubits =
                  Cardinality(UNION {{ps[k][1][j] : j \in 1..Len(ps[k][1])} : k \in 1..Len(ps)})
       /\ (ret'.op = "from_single_term" /\ ret'.err = "") => InRegister(locals'[ret'.val[2]])]_vars

\* a LocalHamiltonian of one term on the qubits (0, 2) was constructed with a
\* register of two qubits, and its trotter_circuit holds gates on qubit 2
C16_Witness ==
    \E l \in 1..Len(locals) :
        /\ locals[l].nqubits = 2
        /\ ~InRegister(locals[l])
        /\ locals[l].circuit # None
        /\ ~GatesInRegister(locals[l])

(***************************************************************************)
(* Properties of scalar multiplication.                                    *)
(***************************************************************************)
Ascending(v) == \A j, k \in 1..Len(v) : j <= k => v[j] <= v[k]

\* C12: when a Hamiltonian is multiplied by a real scalar c: cached eigenvalues
\* become c times them in the result, in the same order for c >= 0 and in
\* reversed order for c < 0, so they stay ascending; cached eigenvectors are
\* the same eigenvectors for c > 0, the identity for c = 0 and left uncomputed
\* for c < 0; a cache the operand does not hold is left uncomputed.
C12_MulHandsCachesOn ==
    [][(ret'.op = "mul" /\ ret'.err = "") =>
          LET h == hams[ret'.args[1]]
              c == ret'.args[2].v
              r == hams'[ret'.val[2]]
              n == Len(h.matrix.rows)
          IN  /\ ret'.val[2] \notin HamIds
              /\ IF h.eigenvalues = None THEN r.eigenvalues = None
                 ELSE LET ev == Val(h.eigenvalues)
                      IN  /\ r.eigenvalues # None
                          /\ Val(r.eigenvalues) =
                                [k \in 1..Len(ev) |->
                                    c * (IF c >= 0 THEN ev[k] ELSE ev[Len(ev) + 1 - k])]
                          /\ Ascending(Val(r.eigenvalues))
              /\ IF h.eigenvectors = None THEN r.eigenvectors = None
                 ELSE IF c > 0 THEN r.eigenvectors = h.eigenvectors
                 ELSE IF c = 0
                 THEN /\ r.eigenvectors # None
                      /\ Val(r.eigenvectors).rows =
                            [i \in 1..n |-> [j \in 1..n |-> IF i = j THEN 1 ELSE 0]]
                 ELSE r.eigenvectors = None]_vars

\* a Hamiltonian with both caches filled and two different eigenvalues was
\* multiplied by a negative number
C12_Witness ==
    /\ ret.op = "mul"
    /\ ret.err = ""
    /\ ret.args[2].v < 0
    /\ hams[ret.args[1]].eigenvalues # None
    /\ hams[ret.args[1]].eigenvectors # None
    /\ Val(hams[ret.args[1]].eigenvalues)[1] # Val(hams[ret.args[1]].eigenvalues)[2]
    /\ hams[ret.val[2]].eigenvalues # None

\* a Hamiltonian with cached eigenvectors was multiplied by zero
C12_ZeroWitness ==
    /\ ret.op = "mul"
    /\ ret.err = ""
    /\ ret.args[2].v = 0
    /\ hams[ret.args[1]].eigenvectors # None

(***************************************************************************)
(* Properties of construction.                                             *)
(***************************************************************************)
\* the three faults of a (nqubits, matrix) pair that C13 names
DenseArgsInvalid(nq, m) ==
    \/ ~nq.isint
    \/ nq.v < 1
    \/ Shape(m) # <<2 ^ nq.v, 2 ^ nq.v>>

\* the three faults of the parts of a LocalHamiltonian that C13 names
LocalArgsInvalid(parts) ==
    LET ps == Placements(parts)
    IN  \/ \E k \in 1..Len(ps) : ps[k][2] \notin HamIds
        \/ \E k \in 1..Len(ps) : ps[k][2] \in HamIds /\ Len(ps[k][1]) # hams[ps[k][2]].nqubits
        \/ \E j, k \in 1..Len(ps) :
              /\ ps[j][2] \in HamIds
              /\ ps[k][2] \in HamIds
              /\ hams[ps[j][2]].matrix.dtype # hams[ps[k][2]].matrix.dtype

\* the parts a constructor call of the log was given
PartsOfCall(r) ==
    IF r.op = "LocalHamiltonian" THEN Instantiate(r.args[1], r.args[2], r.args[3])
    ELSE SingleTermParts(r.args[1], r.args[2])

\* C13: construction fails with an error and yields no object when a
\* Hamiltonian's nqubits is no integer or below 1 or the shape of its matrix is
\* not (2^nqubits, 2^nqubits), and when a LocalHamiltonian has a term that is
\* no Hamiltonian, a term whose nqubits differs from the size of its qubit
\* subset, or two terms of different element types; a Hamiltonian built of a
\* valid (nqubits, matrix) holds exactly that nqubits and matrix.  (For the
\* parts at hand a LocalHamiltonian with none of the faults is built.)
C13_ConstructionValidates ==
    [][/\ ret'.op = "Hamiltonian" =>
             IF DenseArgsInvalid(ret'.args[1], ret'.args[2])
             THEN /\ ret'.err # ""
                  /\ ret'.val = None
                  /\ hams' = hams
             ELSE /\ ret'.err = ""
                  /\ ret'.val[2] \notin HamIds
                  /\ Len(hams') = Len(hams) + 1
                  /\ hams'[ret'.val[2]].nqubits = ret'.args[1].v
                  /\ hams'[ret'.val[2]].matrix = ret'.args[2]
                  /\ \A i \in HamIds : hams'[i] = hams[i]
       /\ ret'.op \in {"LocalHamiltonian", "from_single_term"} =>
             IF LocalArgsInvalid(PartsOfCall(ret'))
             THEN /\ ret'.err # ""
                  /\ ret'.val = None
                  /\ locals' = locals
             ELSE /\ ret'.err = ""
                  /\ ret'.val[2] \notin LocalIds
                  /\ Len(locals') = Len(locals) + 1
                  /\ locals'[ret'.val[2]].parts = PartsOfCall(ret')]_vars

\* a LocalHamiltonian of two terms of different element types, each on as many
\* qubits as it has, was refused and nothing was built
C13_Witness ==
    /\ ret.op = "LocalHamiltonian"
    /\ ret.err = "TypeError"
    /\ ret.args[2] \in HamIds
    /\ ret.args[3] \in HamIds
    /\ hams[ret.args[2]].matrix.dtype # hams[ret.args[3]].matrix.dtype
    /\ locals = <<>>

\* each other fault was met and refused, and a valid Hamiltonian was built
C13_NoIntWitness == ret.op = "Hamiltonian" /\ ret.err = "RuntimeError"
C13_NonPositiveWitness == ret.op = "Hamiltonian" /\ ret.err = "ValueError" /\ ret.args[1].v < 1
C13_ShapeWitness == ret.op = "Hamiltonian" /\ ret.err = "ValueError" /\ ret.args[1].v >= 1
C13_ValidWitness == ret.op = "Hamiltonian" /\ ret.err = "" /\ Len(hams) > Len(LocalTerms)
C13_NoTermWitness == ret.op = "LocalHamiltonian" /\ ret.err = "TypeError" /\ ret.args[2] = 0
C13_SizeWitness == ret.op = "LocalHamiltonian" /\ ret.err = "ValueError"

(***************************************************************************)
(* TaskScheduler (src/qibo/hardware/scheduler.py)                          *)
(*                                                                         *)
(* sched.workers holds one record per TaskScheduler: the work queue of its *)
(* executor (future ids, oldest first), the task its worker thread runs    *)
(* and the step that task is about to take.  sched.futures holds the       *)
(* futures in the order they were made; sched.started logs the futures in  *)
(* the order the workers took them.                                        *)
(***************************************************************************)
\* ThreadPoolExecutor(max_workers=1): a new executor, its one worker idle
NewExecutor == [queue |-> <<>>, running |-> None, pc |-> ""]

\* an executor of more workers: a task is taken while another one runs
WorkerFreeAlways(w) == TRUE

\* the executor's only worker is free to take a task
WorkerFree(w) == w.running = None

\* self._executor.submit(...): a new pending future at the end of the work
\* queue; the caller gets the future and does not wait
Submit(sc, self, kind, steps) ==
    [sc EXCEPT !.futures = Append(@, [owner |-> self, kind |-> kind, steps |-> steps,
                                      state |-> "pending"]),
               !.workers[self].queue = Append(@, Len(sc.futures) + 1)]

\* the check of nshots in both execute methods
ShotsInvalid(nshots) == ~nshots.isint \/ nshots.v < 1

\* the steps of _execute_pulse_sequence and _execute_batch_sequence after
\* compile: upload, start, stop, download, then return
AfterStep(pc) ==
    CASE pc = "compile" -> "upload"
      [] pc = "upload" -> "start"
      [] pc = "start" -> "stop"
      [] pc = "stop" -> "download"
      [] pc = "download" -> "return"

DeviceSteps == {"upload", "start", "stop", "download"}

SchedulerIds == 1..Len(sched.workers)
FutureIds == 1..Len(sched.futures)
ShotsArgs == {IntArg(1), IntArg(0), FloatArg(1)}
BatchSizes == {0, 2}
StepOutcomes == {"ok", "raise"}

SchedFrame == UNCHANGED <<hams, ncalls, locals, circuits, gates>>

\* TaskScheduler.__init__
NewTaskScheduler ==
    /\ Len(sched.workers) < MaxSchedulers
    /\ sched' = [sched EXCEPT !.workers = Append(@, NewExecutor)]
    /\ ret' = Ret("TaskScheduler", <<>>, "", <<"scheduler", Len(sched.workers) + 1>>, <<>>)
    /\ SchedFrame

\* TaskScheduler.execute_pulse_sequence
ExecutePulseSequence(self, isSequence, nshots) ==
    /\ IF ~isSequence
       THEN /\ ret' = Ret("execute_pulse_sequence", <<self, isSequence, nshots>>, "TypeError", None, <<>>)
            /\ UNCHANGED sched
       ELSE IF ShotsInvalid(nshots)
       THEN /\ ret' = Ret("execute_pulse_sequence", <<self, isSequence, nshots>>, "ValueError", None, <<>>)
            /\ UNCHANGED sched
       ELSE /\ Len(sched.futures) < MaxTasks
            /\ sched' = Submit(sched, self, "pulse", 1)
            /\ ret' = Ret("execute_pulse_sequence", <<self, isSequence, nshots>>, "",
                          <<"future", Len(sched.futures) + 1>>, <<>>)
    /\ SchedFrame

\* TaskScheduler.execute_batch_sequence
ExecuteBatchSequence(self, steps, nshots) ==
    /\ IF ShotsInvalid(nshots)
       THEN /\ ret' = Ret("execute_batch_sequence", <<self, steps, nshots>>, "ValueError", None, <<>>)
            /\ UNCHANGED sched
       ELSE /\ Len(sched.futures) < MaxTasks
            /\ sched' = Submit(sched, self, "batch", steps)
            /\ ret' = Ret("execute_batch_sequence", <<self, steps, nshots>>, "",
                          <<"future", Len(sched.futures) + 1>>, <<>>)
    /\ SchedFrame

\* the worker thread of an executor takes the oldest task of the work queue
WorkerTake(self) ==
    LET w == sched.workers[self]
        f == Head(w.queue)
    IN  /\ w.queue # <<>>
        /\ WorkerFree(w)
        /\ sched' = [sched EXCEPT !.workers[self] = [queue |-> Tail(w.queue), running |-> Some(f),
                                                     pc |-> "compile"],
                                  !.futures[f].state = "running",
                                  !.started = Append(@, f)]
        /\ ret' = Ret("worker_take", <<self, f>>, "", None, <<>>)
        /\ SchedFrame

\* one step of the running task: compile, then the calls of K.experiment; a
\* step may raise, which ends the task with the exception in its future, and
\* pulse_batch[0] of an empty batch always raises
WorkerStep(self, outcome) ==
    LET w == sched.workers[self]
        f == Val(w.running)
        task == sched.futures[f]
        raises == outcome = "raise" \/ (w.pc = "compile" /\ task.kind = "batch" /\ task.steps = 0)
        next == AfterStep(w.pc)
    IN  /\ w.running # None
        /\ sched' = IF raises
                    THEN [sched EXCEPT !.workers[self] = [w EXCEPT !.running = None, !.pc = ""],
                                       !.futures[f].state = "failed"]
                    ELSE IF next = "return"
                    THEN [sched EXCEPT !.workers[self] = [w EXCEPT !.running = None, !.pc = ""],
                                       !.futures[f].state = "finished"]
                    ELSE [sched EXCEPT !.workers[self].pc = next]
        /\ ret' = Ret("worker_step", <<self, f, w.pc>>, IF raises THEN "raised" ELSE "", None, <<>>)
        /\ SchedFrame

NextScheduler ==
    \/ NewTaskScheduler
    \/ \E self \in SchedulerIds, isSequence \in BOOLEAN, nshots \in ShotsArgs :
          ExecutePulseSequence(self, isSequence, nshots)
    \/ \E self \in SchedulerIds, steps \in BatchSizes, nshots \in ShotsArgs :
          ExecuteBatchSequence(self, steps, nshots)
    \/ \E self \in SchedulerIds : WorkerTake(self)
    \/ \E self \in SchedulerIds, outcome \in StepOutcomes : WorkerStep(self, outcome)

SpecScheduler == Init /\ [][NextScheduler]_vars

(***************************************************************************)
(* Properties of the task scheduler.                                       *)
(***************************************************************************)
\* the futures of a scheduler whose task a worker has taken and not ended
InFlight(self) == {f \in FutureIds : sched.futures[f].owner = self /\ sched.futures[f].state = "running"}

\* C14, one operation at a time: of the tasks submitted through a scheduler at
\* most one is in flight, and it is the one its worker runs.
C14_OneInFlight ==
    \A self \in SchedulerIds :
        /\ Cardinality(InFlight(self)) <= 1
        /\ InFlight(self) = {f \in FutureIds : sched.workers[self].running = Some(f)}

\* C14, first in first out: the worker takes the tasks of a scheduler in the
\* order they were submitted, each after the one before it has ended.
C14_Fifo ==
    /\ \A j, k \in 1..Len(sched.started) :
          (j < k /\ sched.futures[sched.started[j]].owner = sched.futures[sched.started[k]].owner)
             => sched.started[j] < sched.started[k]
    /\ \A f, g \in FutureIds :
          (f < g /\ sched.futures[f].owner = sched.futures[g].owner
                 /\ sched.futures[g].state # "pending")
             => sched.futures[f].state \in {"finished", "failed"}

\* C14, the future at once: an accepted submission returns a future of its
\* own, pending at the end of the queue, whatever the worker is doing, and
\* moves no worker and no other future.
C14_SubmitReturnsAtOnce ==
    [][(ret'.op \in {"execute_pulse_sequence", "execute_batch_sequence"} /\ ret'.err = "") =>
          LET self == ret'.args[1]
              f == ret'.val[2]
          IN  /\ f \notin FutureIds
              /\ Len(sched'.futures) = Len(sched.futures) + 1
              /\ sched'.futures[f].owner = self
              /\ sched'.futures[f].state = "pending"
              /\ \A g \in FutureIds : sched'.futures[g] = sched.futures[g]
              /\ sched'.workers[self].queue = Append(sched.workers[self].queue, f)
              /\ \A s \in SchedulerIds :
                    /\ sched'.workers[s].running = sched.workers[s].running
                    /\ sched'.workers[s].pc = sched.workers[s].pc
                    /\ s # self => sched'.workers[s] = sched.workers[s]
              /\ sched'.started = sched.started]_vars

\* C14: device operations submitted through a task scheduler run on a queue of
\* one worker: at most one of them is in flight at any time, they start in the
\* order they were submitted, and every accepted submission returns its own
\* future at once without waiting for the device.
C14_SingleWorkerQueue ==
    /\ [](C14_OneInFlight /\ C14_Fifo)
    /\ C14_SubmitReturnsAtOnce

\* a task was accepted and got its future while the worker of the same
\* scheduler was in the middle of a device operation with another task waiting
C14_Witness ==
    /\ ret.op \in {"execute_pulse_sequence", "execute_batch_sequence"}
    /\ ret.err = ""
    /\ sched.workers[ret.args[1]].running # None
    /\ sched.workers[ret.args[1]].pc \in DeviceSteps
    /\ Len(sched.workers[ret.args[1]].queue) = 2
    /\ sched.futures[ret.val[2]].state = "pending"

\* two schedulers each have an operation in flight on the device
C14_TwoSchedulersWitness ==
    \E s, t \in SchedulerIds :
        /\ s # t
        /\ sched.workers[s].running # None /\ sched.workers[s].pc \in DeviceSteps
        /\ sched.workers[t].running # None /\ sched.workers[t].pc \in DeviceSteps

====
